---- MODULE Spec2Model ----
(***************************************************************************)
(* Model of src/src/lib.rs: the Spin HTTP component that records a visit   *)
(* in a remote SQL store and renders the scoreboard and the map.           *)
(*                                                                         *)
(* The store is the remote transactional SQL database behind               *)
(* libsql_client::Connection.  Its tables are the two tables the SQL text  *)
(* of serve creates; each SQL statement of serve is an operator over the   *)
(* store value `db`.  A request is one run of serve; several requests run  *)
(* concurrently and interleave between their store calls.                  *)
(*                                                                         *)
(* serve polls every future exactly once with a no-op waker.  A poll is    *)
(* Ready(Ok), Ready(Err) or Pending.  A future that was Pending is dropped *)
(* at the end of its statement; the operation it had sent may still be     *)
(* applied by the store later (`inflight`).                                *)
(***************************************************************************)
EXTENDS Integers, Sequences, FiniteSets, TLC

\* Number of concurrent requests (runs of serve).
NumRequests == 2

\* Number of polls, over all requests, that may come back Ready(Err) or Pending.
MaxFaults == 1

\* The entries of FAKE_LOCATIONS a request may draw: the first MaxLocation.
MaxLocation == 2

\* The number of requests served one after the other in SeqSpec.
MaxVisits == 6

\* Most rows of a query result handed to a renderer in RenderSpec.
MaxRows == 2

\* Largest value of a counter row handed to result_to_html_table in RenderSpec.
MaxValue == 3

Requests == 1..NumRequests

\* The location table with a sixth entry.
FAKE_LOCATIONS_six_entries ==
    << <<"WAW", "PL", "Warsaw",   "52.22959",  "21.0067">>,
       <<"EWR", "US", "Newark",   "42.99259",  "-81.3321">>,
       <<"HAM", "DE", "Hamburg",  "50.118801", "7.6843">>,
       <<"HEL", "FI", "Helsinki", "60.3183",   "24.9497">>,
       <<"NSW", "AU", "Sydney",   "-33.95",    "151.1819">>,
       <<"CDG", "FR", "Paris",    "49.0097",   "2.5479">> >>

\* lib.rs:105-111.  (airport, country, city, latitude, longitude); the floats
\* are kept as their decimal text, they are only compared and formatted.
FAKE_LOCATIONS ==
    << <<"WAW", "PL", "Warsaw",   "52.22959",  "21.0067">>,
       <<"EWR", "US", "Newark",   "42.99259",  "-81.3321">>,
       <<"HAM", "DE", "Hamburg",  "50.118801", "7.6843">>,
       <<"HEL", "FI", "Helsinki", "60.3183",   "24.9497">>,
       <<"NSW", "AU", "Sydney",   "-33.95",    "151.1819">> >>

Locations == 1..Len(FAKE_LOCATIONS)

\* The locations drawn in the checked runs.
Drawn == {i \in Locations : i <= MaxLocation}

airport(i)   == FAKE_LOCATIONS[i][1]
country(i)   == FAKE_LOCATIONS[i][2]
city(i)      == FAKE_LOCATIONS[i][3]
latitude(i)  == FAKE_LOCATIONS[i][4]
longitude(i) == FAKE_LOCATIONS[i][5]

CounterKey(i) == <<country(i), city(i)>>
CoordKey(i)   == <<latitude(i), longitude(i)>>

VARIABLES
    db,                 \* the store: [tables, counter, coordinates]
    inflight,           \* operations of dropped Pending futures the store may still apply
    pc,                 \* pc[r]: the statement of serve request r executes next
    location,           \* location[r]: index into FAKE_LOCATIONS chosen by r (0: not yet)
    counter_response,   \* counter_response[r]: the QueryResult of SELECT * FROM counter
    coords,             \* coords[r]: the QueryResult of SELECT airport, lat, long ...
    html,               \* html[r]: the String serve returned (<<>>: not yet)
    response,           \* response[r]: the Response the handler returned (status 0: not yet)
    served,             \* requests answered before the ones now running
    polled,             \* polled[r][op]: what the single poll of op's future gave
    submitted,          \* submitted[r]: the statement lists r passed to db.transaction
    effects,            \* effects[r]: statements of r's batch whose effect is committed
    stmt_results,       \* stmt_results[r]: per-statement results of r's batch in the store
    faults              \* polls so far that were Ready(Err) or Pending

vars == <<db, inflight, pc, location, counter_response, coords, html, response,
          served, polled, submitted, effects, stmt_results, faults>>

(***************************************************************************)
(* The store.  A QueryResult is Success((ResultSet, _)) or Error((msg, _)). *)
(***************************************************************************)
Success(columns, rows) == [kind |-> "Success", msg |-> "", columns |-> columns, rows |-> rows]
Error(msg)             == [kind |-> "Error", msg |-> msg, columns |-> <<>>, rows |-> <<>>]
NoResult               == [kind |-> "None", msg |-> "", columns |-> <<>>, rows |-> <<>>]

EmptyDb == [tables |-> {}, counter |-> <<>>, coordinates |-> <<>>]

\* DROP TABLE IF EXISTS counter; CREATE TABLE counter(...): the table recreated
\* on every request.
CreateCounterTableRecreate(d) ==
    [db |-> [d EXCEPT !.tables = @ \cup {"counter"}, !.counter = <<>>],
     result |-> Success(<<>>, <<>>)]

\* CREATE TABLE counter(...), the IF NOT EXISTS forgotten.
CreateCounterTableUnconditional(d) ==
    IF "counter" \in d.tables
    THEN [db |-> d, result |-> Error("table counter already exists")]
    ELSE [db |-> [d EXCEPT !.tables = @ \cup {"counter"}], result |-> Success(<<>>, <<>>)]

\* lib.rs:98  CREATE TABLE IF NOT EXISTS counter(country TEXT, city TEXT, value,
\*            PRIMARY KEY(country, city)) WITHOUT ROWID
CreateCounterTable(d) ==
    [db |-> [d EXCEPT !.tables = @ \cup {"counter"}], result |-> Success(<<>>, <<>>)]

\* lib.rs:100-102  CREATE TABLE IF NOT EXISTS coordinates(lat INT, long INT,
\*                 airport TEXT, PRIMARY KEY (lat, long))
CreateCoordinatesTable(d) ==
    [db |-> [d EXCEPT !.tables = @ \cup {"coordinates"}], result |-> Success(<<>>, <<>>)]

\* The counter table keeps one row per primary key: a function from the
\* (country, city) keys present to the row's value.
HasCounterRow(d, key) == key \in DOMAIN d.counter

\* lib.rs:117  INSERT INTO counter VALUES (?, ?, 0)
InsertCounter(d, key) ==
    IF "counter" \notin d.tables
    THEN [db |-> d, result |-> Error("no such table: counter")]
    ELSE IF HasCounterRow(d, key)
    THEN [db |-> d, result |-> Error("UNIQUE constraint failed: counter.country, counter.city")]
    ELSE [db |-> [d EXCEPT !.counter = [k \in DOMAIN d.counter \cup {key} |->
                                           IF k = key THEN 0 ELSE d.counter[k]]],
          result |-> Success(<<>>, <<>>)]

\* UPDATE counter SET value = value + 1, the WHERE clause forgotten.
UpdateCounterEveryRow(d, key) ==
    IF "counter" \notin d.tables
    THEN [db |-> d, result |-> Error("no such table: counter")]
    ELSE [db |-> [d EXCEPT !.counter = [k \in DOMAIN d.counter |-> d.counter[k] + 1]],
          result |-> Success(<<>>, <<>>)]

\* lib.rs:118-121  UPDATE counter SET value = value + 1 WHERE country = ? AND city = ?
UpdateCounter(d, key) ==
    IF "counter" \notin d.tables
    THEN [db |-> d, result |-> Error("no such table: counter")]
    ELSE [db |-> [d EXCEPT !.counter = [k \in DOMAIN d.counter |->
                                           IF k = key THEN d.counter[k] + 1
                                                      ELSE d.counter[k]]],
          result |-> Success(<<>>, <<>>)]

UniqueCoordinates == "UNIQUE constraint failed: coordinates.lat, coordinates.long"

HasCoordinatesRow(d, lat, long) ==
    \E n \in 1..Len(d.coordinates) :
        d.coordinates[n].lat = lat /\ d.coordinates[n].long = long

\* lib.rs:122-129  INSERT INTO coordinates VALUES (?, ?, ?)
InsertCoordinates(d, row) ==
    IF "coordinates" \notin d.tables
    THEN [db |-> d, result |-> Error("no such table: coordinates")]
    ELSE IF HasCoordinatesRow(d, row[1], row[2])
    THEN [db |-> d, result |-> Error(UniqueCoordinates)]
    ELSE [db |-> [d EXCEPT !.coordinates =
                      Append(@, [lat |-> row[1], long |-> row[2], airport |-> row[3]])],
          result |-> Success(<<>>, <<>>)]

\* The order in which a scan of the WITHOUT ROWID table counter returns its
\* rows: primary-key order, i.e. by country text (AU, DE, FI, PL, US).
CounterScanOrder == <<5, 3, 4, 1, 2>>

RECURSIVE CounterRows(_, _)
CounterRows(d, n) ==
    IF n > Len(CounterScanOrder) THEN <<>>
    ELSE LET i == CounterScanOrder[n]
         IN  (IF HasCounterRow(d, CounterKey(i))
              THEN << [country |-> country(i), city |-> city(i),
                       value |-> d.counter[CounterKey(i)]] >>
              ELSE <<>>) \o CounterRows(d, n + 1)

\* SELECT * FROM counter WHERE value > 1
SelectCounterAboveOne(d) ==
    IF "counter" \notin d.tables
    THEN Error("no such table: counter")
    ELSE Success(<<"country", "city", "value">>,
                 SelectSeq(CounterRows(d, 1), LAMBDA row : row.value > 1))

\* lib.rs:135  SELECT * FROM counter
SelectCounter(d) ==
    IF "counter" \notin d.tables
    THEN Error("no such table: counter")
    ELSE Success(<<"country", "city", "value">>, CounterRows(d, 1))

\* lib.rs:142-143  SELECT airport, lat, long FROM coordinates  (rowid order)
SelectCoordinates(d) ==
    IF "coordinates" \notin d.tables
    THEN Error("no such table: coordinates")
    ELSE Success(<<"airport", "lat", "long">>, d.coordinates)

(***************************************************************************)
(* Statements and the batch of lib.rs:116-130.                             *)
(***************************************************************************)
InsertCounterSql     == "INSERT INTO counter VALUES (?, ?, 0)"
UpdateCounterSql     == "UPDATE counter SET value = value + 1 WHERE country = ? AND city = ?"
InsertCoordinatesSql == "INSERT INTO coordinates VALUES (?, ?, ?)"

\* Statement::with_params(sql, params)
Statement(sql, params) == [sql |-> sql, params |-> params]

\* The batch without its UPDATE: the row stays at the inserted 0.
VisitStatementsWithoutUpdate(i) ==
    << Statement(InsertCounterSql, <<country(i), city(i)>>),
       Statement(InsertCoordinatesSql, <<latitude(i), longitude(i), airport(i)>>) >>

\* The batch without its INSERT INTO coordinates.
VisitStatementsWithoutCoordinates(i) ==
    << Statement(InsertCounterSql, <<country(i), city(i)>>),
       Statement(UpdateCounterSql, <<country(i), city(i)>>) >>

\* The batch with the UPDATE placed before the INSERT of the counter row.
VisitStatementsUpdateFirst(i) ==
    << Statement(UpdateCounterSql, <<country(i), city(i)>>),
       Statement(InsertCounterSql, <<country(i), city(i)>>),
       Statement(InsertCoordinatesSql, <<latitude(i), longitude(i), airport(i)>>) >>

\* lib.rs:116-130: the array serve passes to db.transaction for location i.
VisitStatements(i) ==
    << Statement(InsertCounterSql, <<country(i), city(i)>>),
       Statement(UpdateCounterSql, <<country(i), city(i)>>),
       Statement(InsertCoordinatesSql, <<latitude(i), longitude(i), airport(i)>>) >>

\* The store executing one statement of a batch.
Execute(d, stmt) ==
    CASE stmt.sql = InsertCounterSql     -> InsertCounter(d, stmt.params)
      [] stmt.sql = UpdateCounterSql     -> UpdateCounter(d, stmt.params)
      [] stmt.sql = InsertCoordinatesSql -> InsertCoordinates(d, stmt.params)
      [] OTHER -> [db |-> d, result |-> Error("syntax error")]

\* The statements stmts[n..] executed in order on d: the store after them and
\* the QueryResult of each.
RECURSIVE RunStatements(_, _, _)
RunStatements(d, stmts, n) ==
    IF n > Len(stmts) THEN [db |-> d, results |-> <<>>]
    ELSE LET one  == Execute(d, stmts[n])
             rest == RunStatements(one.db, stmts, n + 1)
         IN  [db |-> rest.db, results |-> <<one.result>> \o rest.results]

AllSucceeded(results) == \A n \in 1..Len(results) : results[n].kind = "Success"

\* The statements of stmts that changed the store when run on d.
RECURSIVE Changed(_, _, _)
Changed(d, stmts, n) ==
    IF n > Len(stmts) THEN {}
    ELSE LET one == Execute(d, stmts[n])
         IN  (IF one.db # d THEN {n} ELSE {}) \cup Changed(one.db, stmts, n + 1)

\* The statements sent one by one instead of as one transaction: a failed
\* statement leaves the others applied.
transactionStatementwise(d, stmts) ==
    LET run == RunStatements(d, stmts, 1)
    IN  [db |-> run.db, results |-> run.results, applied |-> Changed(d, stmts, 1)]

\* lib.rs:116-133  db.transaction([...]): BEGIN, the statements, END as one
\* unit, isolated from the batches of other requests.  The store runs every
\* statement and answers with one QueryResult each; the transaction commits
\* when every statement succeeded and is rolled back as a whole otherwise.
transaction(d, stmts) ==
    LET run == RunStatements(d, stmts, 1)
    IN  IF AllSucceeded(run.results)
        THEN [db |-> run.db, results |-> run.results, applied |-> Changed(d, stmts, 1)]
        ELSE [db |-> d, results |-> run.results, applied |-> {}]

(***************************************************************************)
(* Rendering.  A String is a sequence of text pieces.                      *)
(***************************************************************************)
\* libsql_client::Value and its Display, as format!("{}") uses it.
Text(t)    == [tag |-> "Text", t |-> t, n |-> 0]
Integer(n) == [tag |-> "Integer", t |-> "", n |-> n]
Float(t)   == [tag |-> "Float", t |-> t, n |-> 0]

Display(v) == IF v.tag = "Integer" THEN ToString(v.n) ELSE v.t

\* The cell of a result row under a column name.
Cell(row, column) ==
    CASE column = "country" -> Text(row.country)
      [] column = "city"    -> Text(row.city)
      [] column = "value"   -> Integer(row.value)
      [] column = "airport" -> Text(row.airport)
      [] column = "lat"     -> Float(row.lat)
      [] column = "long"    -> Float(row.long)

RECURSIVE Concat(_)
Concat(seqs) == IF seqs = <<>> THEN <<>> ELSE Head(seqs) \o Concat(Tail(seqs))

TableOpen  == "<table style=\"border: 1px solid\">"
TableClose == "</table>"

\* lib.rs:17-19
HeaderCells(columns) ==
    Concat([c \in 1..Len(columns) |->
               <<"<th style=\"border: 1px solid\">", columns[c], "</th>">>])

\* The cells of a row emitted from the last column to the first.
TableRowReversed(columns, row) ==
    <<"<tr style=\"border: 1px solid\">">>
    \o Concat([c \in 1..Len(columns) |->
                  <<"<td>", Display(Cell(row, columns[Len(columns) + 1 - c])), "</td>">>])
    \o <<"</tr>">>

\* lib.rs:20-26
TableRow(columns, row) ==
    <<"<tr style=\"border: 1px solid\">">>
    \o Concat([c \in 1..Len(columns) |-> <<"<td>", Display(Cell(row, columns[c])), "</td>">>])
    \o <<"</tr>">>

\* result_to_html_table without its Error arm: an empty table for a failed query.
result_to_html_table_no_error_arm(result) ==
    <<TableOpen>>
    \o HeaderCells(result.columns)
    \o Concat([n \in 1..Len(result.rows) |-> TableRow(result.columns, result.rows[n])])
    \o <<TableClose>>

\* lib.rs:12-31
result_to_html_table(result) ==
    IF result.kind = "Error"
    THEN <<"Error: ", result.msg>>
    ELSE <<TableOpen>>
         \o HeaderCells(result.columns)
         \o Concat([n \in 1..Len(result.rows) |-> TableRow(result.columns, result.rows[n])])
         \o <<TableClose>>

CanvasPrefix == "<script>...function drawPoint(){ clear(); let point;"
CanvasSuffix == "}</script>"

\* A data point with longitude and latitude exchanged.
MapPointLongLat(row) ==
    <<"point = myMap.latLngToPixel(", Display(Cell(row, "long")), ", ",
      Display(Cell(row, "lat")),
      ");\nellipse(point.x, point.y, 10, 10);\ntext(",
      Display(Cell(row, "airport")), ", point.x, point.y);\n">>

\* lib.rs:66-69
MapPoint(row) ==
    <<"point = myMap.latLngToPixel(", Display(Cell(row, "lat")), ", ",
      Display(Cell(row, "long")),
      ");\nellipse(point.x, point.y, 10, 10);\ntext(",
      Display(Cell(row, "airport")), ", point.x, point.y);\n">>

\* lib.rs:34-75
create_map_canvas(result) ==
    IF result.kind = "Error"
    THEN <<"Error: ", result.msg>>
    ELSE <<CanvasPrefix>>
         \o Concat([n \in 1..Len(result.rows) |-> MapPoint(result.rows[n])])
         \o <<CanvasSuffix>>

PageMiddle == " Database powered by <a href=\"https://chiselstrike.com/\">Turso</a>. <br /> Scoreboard: <br /> "
PageFooter == " <footer>Map data from OpenStreetMap (https://tile.osm.org/)</footer>"

\* lib.rs:140, 151-153
Page(counter_result, coords_result) ==
    create_map_canvas(coords_result) \o <<PageMiddle>>
    \o result_to_html_table(counter_result) \o <<PageFooter>>

\* lib.rs:137, 148  format!("Error: {e}")
ErrorBody(e) == <<"Error: ", e>>

\* lib.rs:138, 149
PendingBody == <<"Unexpected incomplete async event">>

\* lib.rs:170
StatusOk == 200

NoResponse == [status |-> 0, body |-> <<>>]

\* A handler that answers an error body with status 500.
handle_country_counter_spin_error_status(body) ==
    [status |-> IF body # <<>> /\ Head(body) \in {"Error: ", "Unexpected incomplete async event"}
                THEN 500 ELSE StatusOk,
     body |-> body]

\* lib.rs:157-172: the Response built around the String serve returned.
handle_country_counter_spin(body) == [status |-> StatusOk, body |-> body]

\* The text of the Err a store call gives when the store cannot be reached.
StoreUnavailable == "store unavailable"

(***************************************************************************)
(* serve, lib.rs:93-154, one run per request.                              *)
(***************************************************************************)
Ops == {"create_counter", "create_coordinates", "transaction",
        "select_counter", "select_coordinates"}

\* What the one poll of a store future gives: Ready with the store's answer,
\* Ready(Err(e)) without the store having run the operation, or Pending.
Outcomes == IF faults < MaxFaults THEN {"ready", "err", "pending"} ELSE {"ready"}

Fault(o) == IF o = "ready" THEN 0 ELSE 1

Msg(r, op) == [req |-> r, op |-> op]

\* A future dropped while Pending leaves its operation with the store.
Dropped(r, op, o) == IF o = "pending" THEN inflight \cup {Msg(r, op)} ELSE inflight

Init ==
    /\ db = EmptyDb
    /\ inflight = {}
    /\ pc = [r \in Requests |-> "create_counter"]
    /\ location = [r \in Requests |-> 0]
    /\ counter_response = [r \in Requests |-> NoResult]
    /\ coords = [r \in Requests |-> NoResult]
    /\ html = [r \in Requests |-> <<>>]
    /\ response = [r \in Requests |-> NoResponse]
    /\ served = 0
    /\ polled = [r \in Requests |-> [op \in Ops |-> "none"]]
    /\ submitted = [r \in Requests |-> <<>>]
    /\ effects = [r \in Requests |-> {}]
    /\ stmt_results = [r \in Requests |-> <<>>]
    /\ faults = 0

\* lib.rs:98-99: db.execute(CREATE TABLE IF NOT EXISTS counter...) polled once,
\* the poll's value discarded by is_ready().  Requests are interchangeable and
\* are numbered in the order in which they arrive.
ServeCreateCounter(r) ==
    /\ pc[r] = "create_counter"
    /\ \A q \in Requests : q < r => pc[q] # "create_counter"
    /\ \E o \in Outcomes :
        /\ db' = IF o = "ready" THEN CreateCounterTable(db).db ELSE db
        /\ inflight' = Dropped(r, "create_counter", o)
        /\ polled' = [polled EXCEPT ![r]["create_counter"] = o]
        /\ faults' = faults + Fault(o)
    /\ pc' = [pc EXCEPT ![r] = "create_coordinates"]
    /\ UNCHANGED <<location, counter_response, coords, html, response, served,
                   submitted, effects, stmt_results>>

\* lib.rs:100-102
ServeCreateCoordinates(r) ==
    /\ pc[r] = "create_coordinates"
    /\ \E o \in Outcomes :
        /\ db' = IF o = "ready" THEN CreateCoordinatesTable(db).db ELSE db
        /\ inflight' = Dropped(r, "create_coordinates", o)
        /\ polled' = [polled EXCEPT ![r]["create_coordinates"] = o]
        /\ faults' = faults + Fault(o)
    /\ pc' = [pc EXCEPT ![r] = "transaction"]
    /\ UNCHANGED <<location, counter_response, coords, html, response, served,
                   submitted, effects, stmt_results>>

\* lib.rs:113-133: choose a location, submit the batch, poll it once and
\* discard the poll's value.
Visit(r, choices) ==
    /\ pc[r] = "transaction"
    /\ \E i \in choices, o \in Outcomes :
        LET tx == transaction(db, VisitStatements(i))
        IN  /\ location' = [location EXCEPT ![r] = i]
            /\ submitted' = [submitted EXCEPT ![r] = Append(@, VisitStatements(i))]
            /\ db' = IF o = "ready" THEN tx.db ELSE db
            /\ effects' = IF o = "ready" THEN [effects EXCEPT ![r] = tx.applied] ELSE effects
            /\ stmt_results' = IF o = "ready"
                               THEN [stmt_results EXCEPT ![r] = tx.results]
                               ELSE stmt_results
            /\ inflight' = Dropped(r, "transaction", o)
            /\ polled' = [polled EXCEPT ![r]["transaction"] = o]
            /\ faults' = faults + Fault(o)
    /\ pc' = [pc EXCEPT ![r] = "select_counter"]
    /\ UNCHANGED <<counter_response, coords, html, response, served>>

ServeTransaction(r) == Visit(r, Drawn)

\* lib.rs:135-140, and lib.rs:167-171 when serve returns here.
ServeSelectCounter(r) ==
    /\ pc[r] = "select_counter"
    /\ \E o \in Outcomes :
        /\ polled' = [polled EXCEPT ![r]["select_counter"] = o]
        /\ faults' = faults + Fault(o)
        /\ counter_response' = IF o = "ready"
                               THEN [counter_response EXCEPT ![r] = SelectCounter(db)]
                               ELSE counter_response
        /\ html' = CASE o = "ready"   -> html
                     [] o = "err"     -> [html EXCEPT ![r] = ErrorBody(StoreUnavailable)]
                     [] o = "pending" -> [html EXCEPT ![r] = PendingBody]
        /\ response' = IF o = "ready"
                       THEN response
                       ELSE [response EXCEPT ![r] = handle_country_counter_spin(html'[r])]
        /\ pc' = [pc EXCEPT ![r] = IF o = "ready" THEN "select_coordinates" ELSE "done"]
    /\ UNCHANGED <<db, inflight, location, coords, served, submitted, effects, stmt_results>>

\* lib.rs:142-153 and lib.rs:167-171.
ServeSelectCoordinates(r) ==
    /\ pc[r] = "select_coordinates"
    /\ \E o \in Outcomes :
        /\ polled' = [polled EXCEPT ![r]["select_coordinates"] = o]
        /\ faults' = faults + Fault(o)
        /\ coords' = IF o = "ready"
                     THEN [coords EXCEPT ![r] = SelectCoordinates(db)]
                     ELSE coords
        /\ html' = CASE o = "ready" ->
                          [html EXCEPT ![r] = Page(counter_response[r], SelectCoordinates(db))]
                     [] o = "err"     -> [html EXCEPT ![r] = ErrorBody(StoreUnavailable)]
                     [] o = "pending" -> [html EXCEPT ![r] = PendingBody]
        /\ response' = [response EXCEPT ![r] = handle_country_counter_spin(html'[r])]
    /\ pc' = [pc EXCEPT ![r] = "done"]
    /\ UNCHANGED <<db, inflight, location, counter_response, served,
                   submitted, effects, stmt_results>>

\* The store applies the operation of a future that was dropped while Pending.
StoreApply(m) ==
    /\ m \in inflight
    /\ inflight' = inflight \ {m}
    /\ LET tx == transaction(db, VisitStatements(location[m.req]))
       IN  /\ db' = CASE m.op = "create_counter"     -> CreateCounterTable(db).db
                      [] m.op = "create_coordinates" -> CreateCoordinatesTable(db).db
                      [] m.op = "transaction"        -> tx.db
           /\ effects' = IF m.op = "transaction"
                         THEN [effects EXCEPT ![m.req] = tx.applied] ELSE effects
           /\ stmt_results' = IF m.op = "transaction"
                              THEN [stmt_results EXCEPT ![m.req] = tx.results]
                              ELSE stmt_results
    /\ UNCHANGED <<pc, location, counter_response, coords, html, response, served,
                   polled, submitted, faults>>

Next ==
    \/ \E r \in Requests : ServeCreateCounter(r)
    \/ \E r \in Requests : ServeCreateCoordinates(r)
    \/ \E r \in Requests : ServeTransaction(r)
    \/ \E r \in Requests : ServeSelectCounter(r)
    \/ \E r \in Requests : ServeSelectCoordinates(r)
    \/ \E m \in inflight : StoreApply(m)

Spec == Init /\ [][Next]_vars

(***************************************************************************)
(* Requests served one after the other: the handler is invoked again once  *)
(* the previous invocation has returned, MaxVisits times in all, each      *)
(* choosing among all of FAKE_LOCATIONS.                                   *)
(***************************************************************************)

\* lib.rs:157-172: the next invocation of the handler.  It starts with fresh
\* locals; the store keeps its tables.  The store has finished with the
\* operations of the previous invocation by then.
NextRequest(r) ==
    /\ pc[r] = "done"
    /\ served + 1 < MaxVisits
    /\ \A m \in inflight : m.req # r
    /\ served' = served + 1
    /\ pc' = [pc EXCEPT ![r] = "create_counter"]
    /\ location' = [location EXCEPT ![r] = 0]
    /\ counter_response' = [counter_response EXCEPT ![r] = NoResult]
    /\ coords' = [coords EXCEPT ![r] = NoResult]
    /\ html' = [html EXCEPT ![r] = <<>>]
    /\ response' = [response EXCEPT ![r] = NoResponse]
    /\ polled' = [polled EXCEPT ![r] = [op \in Ops |-> "none"]]
    /\ submitted' = [submitted EXCEPT ![r] = <<>>]
    /\ effects' = [effects EXCEPT ![r] = {}]
    /\ stmt_results' = [stmt_results EXCEPT ![r] = <<>>]
    /\ UNCHANGED <<db, inflight, faults>>

SeqNext ==
    \/ ServeCreateCounter(1)
    \/ ServeCreateCoordinates(1)
    \/ Visit(1, Locations)
    \/ ServeSelectCounter(1)
    \/ ServeSelectCoordinates(1)
    \/ \E m \in inflight : StoreApply(m)
    \/ NextRequest(1)

SeqSpec == Init /\ [][SeqNext]_vars

(***************************************************************************)
(* The renderers on their own: serve's rendering step applied to query     *)
(* results drawn from bounded sets.                                        *)
(***************************************************************************)

\* A text cell with markup characters in it.
MarkupText == "<b>Warsaw</b> & Co"

SeqsUpTo(S, n) == UNION {[1..k -> S] : k \in 0..n}

\* Column lists of a counter result: what SELECT * gives, a reordered part of
\* it, a single column, none.
ColumnLists ==
    { <<"country", "city", "value">>, <<"value", "country">>, <<"city">>, <<>> }

\* Rows of a counter result.
CounterInputRows ==
    { [country |-> country(i), city |-> city(i), value |-> v] : i \in Drawn, v \in 1..MaxValue }
    \cup { [country |-> country(1), city |-> MarkupText, value |-> 1] }

\* The QueryResults handed to result_to_html_table.
CounterInputs ==
    { Success(c, rows) : c \in ColumnLists, rows \in SeqsUpTo(CounterInputRows, MaxRows) }
    \cup { Error("no such table: counter") }

\* Rows of a coordinates result.
CoordinatesInputRows ==
    { [lat |-> latitude(i), long |-> longitude(i), airport |-> airport(i)] : i \in Drawn }

\* The QueryResults handed to create_map_canvas.
CoordinatesInputs ==
    { Success(<<"airport", "lat", "long">>, rows) :
          rows \in SeqsUpTo(CoordinatesInputRows, MaxRows) }
    \cup { Error("no such table: coordinates") }

\* lib.rs:135-150 done: request 1 holds the two results, one of them drawn
\* freely and the other one of an empty table.
RenderInit ==
    /\ db = EmptyDb
    /\ inflight = {}
    /\ pc = [r \in Requests |-> IF r = 1 THEN "render" ELSE "create_counter"]
    /\ location = [r \in Requests |-> 0]
    /\ \E cr \in CounterInputs, co \in CoordinatesInputs :
          /\ \/ cr = Success(<<"country", "city", "value">>, <<>>)
             \/ co = Success(<<"airport", "lat", "long">>, <<>>)
          /\ counter_response = [r \in Requests |-> IF r = 1 THEN cr ELSE NoResult]
          /\ coords = [r \in Requests |-> IF r = 1 THEN co ELSE NoResult]
    /\ html = [r \in Requests |-> <<>>]
    /\ response = [r \in Requests |-> NoResponse]
    /\ served = 0
    /\ polled = [r \in Requests |-> [op \in Ops |-> "none"]]
    /\ submitted = [r \in Requests |-> <<>>]
    /\ effects = [r \in Requests |-> {}]
    /\ stmt_results = [r \in Requests |-> <<>>]
    /\ faults = 0

\* lib.rs:140, 151-153 and 167-171: both results rendered into the page.
Render(r) ==
    /\ pc[r] = "render"
    /\ html' = [html EXCEPT ![r] = Page(counter_response[r], coords[r])]
    /\ response' = [response EXCEPT ![r] = handle_country_counter_spin(html'[r])]
    /\ pc' = [pc EXCEPT ![r] = "done"]
    /\ UNCHANGED <<db, inflight, location, counter_response, coords, served,
                   polled, submitted, effects, stmt_results, faults>>

RenderNext == Render(1)

RenderSpec == RenderInit /\ [][RenderNext]_vars



(***************************************************************************)
(* Properties.                                                             *)
(***************************************************************************)
Done(r) == pc[r] = "done"

\* Every request has returned and the store holds no operation of a dropped future.
Finished == (\A r \in Requests : Done(r)) /\ inflight = {}

\* The store ran r's batch.
BatchRan(r) == stmt_results[r] # <<>>

\* The store ran r's batch and every statement of it succeeded: it committed.
BatchSucceeded(r) == BatchRan(r) /\ AllSucceeded(stmt_results[r])

\* The store ran r's batch and reported an error for a statement of it.
BatchFailed(r) == BatchRan(r) /\ ~AllSucceeded(stmt_results[r])

Visitors(i) == {r \in Requests : location[r] = i}

CounterValue(i) == IF HasCounterRow(db, CounterKey(i)) THEN db.counter[CounterKey(i)] ELSE 0

\* C1: in every interleaving of the requests, the counter row of a key holds
\* the number of visit batches for that key that succeeded (and there is no row
\* when none did): no update is lost and none is counted twice.  It holds in
\* every state, so in particular once all requests have finished.
C1_NoLostUpdate ==
    \A i \in Locations :
        LET n == Cardinality({r \in Visitors(i) : BatchSucceeded(r)})
        IN  /\ CounterValue(i) = n
            /\ HasCounterRow(db, CounterKey(i)) <=> n > 0

\* Two requests raced on one key, both have finished, and the row holds the
\* one batch that succeeded.
C1_Witness ==
    /\ Finished
    /\ \E r1, r2 \in Requests :
        /\ r1 # r2
        /\ location[r1] = location[r2]
        /\ BatchSucceeded(r1) /\ BatchFailed(r2)
        /\ CounterValue(location[r1]) = 1

\* C2 as claimed: after the requests have run from empty tables with no store
\* fault, the counter holds exactly one row per visited key and its value is
\* the number of requests that resolved to the key.
C2_ValueIsVisitCount ==
    (Finished /\ faults = 0) =>
        \A i \in Locations :
            /\ CounterValue(i) = Cardinality(Visitors(i))
            /\ HasCounterRow(db, CounterKey(i)) <=> Visitors(i) # {}

\* C3: a batch takes effect all-or-nothing: the statements of a request's
\* batch whose effect is in the store are none or all three, also when a
\* statement of the batch failed and while other requests run.
C3_AllOrNothing ==
    \A r \in Requests : effects[r] = {} \/ effects[r] = {1, 2, 3}

\* A batch whose INSERT failed on the existing key while its UPDATE succeeded
\* was rolled back whole, next to a batch that committed whole.
C3_Witness ==
    \E r1, r2 \in Requests :
        /\ effects[r1] = {1, 2, 3}
        /\ BatchFailed(r2)
        /\ stmt_results[r2][1].kind = "Error"
        /\ stmt_results[r2][2].kind = "Success"
        /\ effects[r2] = {}

\* The store reported an error for a schema statement or for the batch of r.
WriteErrorReported(r) ==
    \/ polled[r]["create_counter"] = "err"
    \/ polled[r]["create_coordinates"] = "err"
    \/ polled[r]["transaction"] = "err"
    \/ polled[r]["transaction"] = "ready" /\ BatchFailed(r)

\* C4 as claimed: a request to which a schema statement or the visit batch
\* reported a store error issues no read and returns an error text as its
\* whole body.
C4_WriteErrorAborts ==
    \A r \in Requests :
        WriteErrorReported(r) =>
            /\ polled[r]["select_counter"] = "none"
            /\ polled[r]["select_coordinates"] = "none"
            /\ Done(r) => Len(html[r]) = 2 /\ html[r][1] = "Error: "

\* C5 as claimed: a request starts a stage only when its earlier store
\* operations have completed: it submits the batch with no schema statement of
\* its own still pending, and issues a read with its batch not pending.
C5_AwaitedInOrder ==
    [][\A r \in Requests :
          /\ (pc[r] = "transaction" /\ pc'[r] # pc[r]) =>
                 /\ Msg(r, "create_counter") \notin inflight
                 /\ Msg(r, "create_coordinates") \notin inflight
          /\ (pc[r] \in {"select_counter", "select_coordinates"} /\ pc'[r] # pc[r]) =>
                 Msg(r, "transaction") \notin inflight]_vars

RowsWithKey(rows, i) ==
    {n \in 1..Len(rows) : rows[n].country = country(i) /\ rows[n].city = city(i)}

C7_DuplicateCoordinatesIgnored ==
    \A r \in Requests :
        BatchRan(r) => stmt_results[r][3] # Error(UniqueCoordinates)

SchemaStep(r, op) == pc[r] = op /\ polled'[r][op] = "ready"

\* C8: the schema bootstrap is idempotent: a CREATE TABLE statement that the
\* store runs when its table exists already reports no error and changes
\* nothing, and the store never holds a table other than counter and
\* coordinates.
C8_BootstrapIdempotent ==
    [][/\ db'.tables \subseteq {"counter", "coordinates"}
       /\ \A r \in Requests :
            /\ (("counter" \in db.tables)
                    /\ (SchemaStep(r, "create_counter")
                        \/ (Msg(r, "create_counter") \in inflight \ inflight'))) =>
                   /\ db' = db
                   /\ CreateCounterTable(db).result.kind = "Success"
            /\ (("coordinates" \in db.tables)
                    /\ (SchemaStep(r, "create_coordinates")
                        \/ (Msg(r, "create_coordinates") \in inflight \ inflight'))) =>
                   /\ db' = db
                   /\ CreateCoordinatesTable(db).result.kind = "Success"]_vars

\* A later request is past its bootstrap, which ran on tables that held rows,
\* and the rows are there.
C8_Witness ==
    \E r1, r2 \in Requests :
        /\ r1 # r2
        /\ BatchSucceeded(r1)
        /\ polled[r2]["create_counter"] = "ready"
        /\ polled[r2]["create_coordinates"] = "ready"
        /\ pc[r2] = "transaction"
        /\ db.tables = {"counter", "coordinates"}
        /\ CounterValue(location[r1]) = 1
        /\ Len(db.coordinates) = 1

\* C9: a request submits the visit batch exactly once, as one unit of three
\* statements in the order INSERT counter row (country, city, 0), UPDATE
\* value + 1 for the same (country, city), INSERT coordinates row; after a
\* failed batch nothing is submitted again.
C9_OneBatchInOrder ==
    \A r \in Requests :
        /\ Len(submitted[r]) <= 1
        /\ pc[r] \in {"select_counter", "select_coordinates", "done"} =>
               /\ Len(submitted[r]) = 1
               /\ LET batch == submitted[r][1]
                      i     == location[r]
                  IN  /\ Len(batch) = 3
                      /\ batch[1].sql = "INSERT INTO counter VALUES (?, ?, 0)"
                      /\ batch[1].params = <<country(i), city(i)>>
                      /\ batch[2].sql =
                           "UPDATE counter SET value = value + 1 WHERE country = ? AND city = ?"
                      /\ batch[2].params = batch[1].params
                      /\ batch[3].sql = "INSERT INTO coordinates VALUES (?, ?, ?)"
                      /\ batch[3].params = <<latitude(i), longitude(i), airport(i)>>

\* A request whose batch failed has returned, having submitted one batch.
C9_Witness ==
    \E r \in Requests :
        /\ Done(r)
        /\ polled[r]["transaction"] = "ready" /\ BatchFailed(r)
        /\ Len(submitted[r]) = 1

Contains(text, piece) == \E n \in 1..Len(text) : text[n] = piece

\* The pieces of a page after its PageMiddle: the scoreboard and the footer.
AfterMiddle(text) ==
    LET k == CHOOSE n \in 1..Len(text) : text[n] = PageMiddle
    IN  SubSeq(text, k + 1, Len(text))

\* C10: a failed read renders none of its rows and puts the error text where
\* its section would be: a failed call (Ready(Err)) makes "Error: e" the whole
\* response; a QueryResult::Error of the counter read makes "Error: msg" the
\* scoreboard and one of the coordinates read makes it the map section.
C10_ReadErrorRendered ==
    \A r \in Requests :
        /\ polled[r]["select_counter"] = "err" =>
               Done(r) /\ html[r] = <<"Error: ", StoreUnavailable>>
        /\ polled[r]["select_coordinates"] = "err" =>
               Done(r) /\ html[r] = <<"Error: ", StoreUnavailable>>
        /\ (polled[r]["select_coordinates"] = "ready" /\ counter_response[r].kind = "Error") =>
               /\ AfterMiddle(html[r]) = <<"Error: ", counter_response[r].msg, PageFooter>>
               /\ ~Contains(html[r], TableOpen) /\ ~Contains(html[r], "<td>")
        /\ (polled[r]["select_coordinates"] = "ready" /\ coords[r].kind = "Error") =>
               /\ SubSeq(html[r], 1, 3) = <<"Error: ", coords[r].msg, PageMiddle>>
               /\ ~Contains(html[r], CanvasPrefix)
               /\ ~Contains(html[r], "point = myMap.latLngToPixel(")

\* A request got QueryResult::Error from its counter read (no such table) and
\* returned the page with the error as its scoreboard, the map rendered.
C10_Witness ==
    \E r \in Requests :
        /\ Done(r)
        /\ polled[r]["select_coordinates"] = "ready"
        /\ counter_response[r].kind = "Error"
        /\ coords[r].kind = "Success"
        /\ Contains(html[r], CanvasPrefix)

\* The body is an error message: "Error: ..." or the incomplete-event text.
IsErrorBody(body) ==
    \/ body = PendingBody
    \/ Len(body) = 2 /\ body[1] = "Error: "

\* C11 as claimed: a request with a store operation that did not complete has
\* returned an error body, and no batch is left partially applied.
C11_FailFastOnPending ==
    \A r \in Requests :
        /\ (Done(r) /\ \E op \in Ops : polled[r][op] = "pending") =>
               IsErrorBody(html[r]) \/ Contains(html[r], "Error: ")
        /\ effects[r] = {} \/ effects[r] = {1, 2, 3}

\* C12: in every step, also one of a failed batch or of a concurrent request,
\* every counter row that exists stays and its value does not decrease.
C12_ValueMonotone ==
    [][\A i \in Locations :
          HasCounterRow(db, CounterKey(i)) =>
              /\ HasCounterRow(db', CounterKey(i))
              /\ db'.counter[CounterKey(i)] >= db.counter[CounterKey(i)]]_vars

\* A row survived the bootstrap and the failed batch of a later request for
\* the same key.
C12_Witness ==
    \E r1, r2 \in Requests :
        /\ r1 # r2
        /\ location[r1] = location[r2]
        /\ BatchSucceeded(r1)
        /\ polled[r2]["create_counter"] = "ready"
        /\ polled[r2]["transaction"] = "ready" /\ BatchFailed(r2)
        /\ pc[r2] = "select_counter"
        /\ CounterValue(location[r1]) = 1

\* C13: the handler answers with status 200 and the String serve returned as
\* the body, for the normal page and for an error body alike; there is no
\* response before serve returns.
C13_AlwaysStatus200 ==
    \A r \in Requests :
        /\ Done(r) => response[r].status = 200 /\ response[r].body = html[r]
        /\ ~Done(r) => response[r] = NoResponse

\* One request was answered with the page and another with an error body.
C13_Witness ==
    \E r1, r2 \in Requests :
        /\ Done(r1) /\ Contains(html[r1], PageMiddle) /\ response[r1].status = 200
        /\ Done(r2) /\ IsErrorBody(html[r2]) /\ response[r2].status = 200

\* The counter rows of d whose key is not that of location i.
CounterRowsExcept(d, i) ==
    [k \in DOMAIN d.counter \ {CounterKey(i)} |-> d.counter[k]]

\* The coordinates rows of d whose key is not that of location i.
CoordinatesRowsExcept(d, i) ==
    SelectSeq(d.coordinates, LAMBDA row : <<row.lat, row.long>> # CoordKey(i))

\* This step runs the batch of request r: at the poll of db.transaction, or
\* later when the store applies the batch of the dropped future.
BatchStepOf(r) ==
    \/ pc[r] = "transaction" /\ pc'[r] = "select_counter"
    \/ Msg(r, "transaction") \in inflight /\ Msg(r, "transaction") \notin inflight'

\* This step is one of the two reads of request r, with the rendering.
ReadStepOf(r) ==
    /\ pc[r] \in {"select_counter", "select_coordinates"}
    /\ pc'[r] # pc[r]

\* C18: the step that runs the batch of a request resolved to location L
\* leaves every counter row with another key and every coordinates row with
\* another key as it was; a read step, rendering included, leaves both tables
\* as they were.
C18_VisitFrame ==
    [][\A r \in Requests :
          /\ BatchStepOf(r) =>
                /\ CounterRowsExcept(db', location'[r]) = CounterRowsExcept(db, location'[r])
                /\ CoordinatesRowsExcept(db', location'[r])
                       = CoordinatesRowsExcept(db, location'[r])
          /\ ReadStepOf(r) =>
                /\ db'.counter = db.counter
                /\ db'.coordinates = db.coordinates]_vars

\* Two visits to different locations committed, the second beside the rows of
\* the first, and the first request read both tables and rendered.
C18_Witness ==
    \E r1, r2 \in Requests :
        /\ location[r1] # 0 /\ location[r2] # 0 /\ location[r1] # location[r2]
        /\ BatchSucceeded(r1) /\ BatchSucceeded(r2)
        /\ Done(r1) /\ polled[r1]["select_coordinates"] = "ready"
        /\ Cardinality(DOMAIN db.counter) = 2 /\ Len(db.coordinates) = 2

\* C19: no store state between two store operations, and so no counter read
\* of any request, holds a counter row with value 0: the inserted 0 becomes
\* visible only together with the increment of the same batch.
C19_NoZeroRow ==
    /\ \A k \in DOMAIN db.counter : db.counter[k] >= 1
    /\ \A r \in Requests :
          counter_response[r].kind = "Success" =>
              \A n \in 1..Len(counter_response[r].rows) :
                  counter_response[r].rows[n].value >= 1

\* A request whose own batch is still with the store read the counter table
\* right after the batch of another request had committed.
C19_Witness ==
    \E r1, r2 \in Requests :
        /\ r1 # r2
        /\ Msg(r1, "transaction") \in inflight
        /\ BatchSucceeded(r2)
        /\ polled[r1]["select_counter"] = "ready"
        /\ counter_response[r1].kind = "Success"
        /\ Len(counter_response[r1].rows) = 1
        /\ counter_response[r1].rows[1].value = 1

\* C20: starting from empty tables, in every store state and for every entry
\* of the location table, the counter table has a row for the entry's
\* (country, city) exactly when the coordinates table has a row for the
\* entry's (latitude, longitude), and that row carries the entry's airport.
C20_TablesAgree ==
    \A i \in Locations :
        /\ HasCounterRow(db, CounterKey(i)) <=> HasCoordinatesRow(db, latitude(i), longitude(i))
        /\ \A n \in 1..Len(db.coordinates) :
              <<db.coordinates[n].lat, db.coordinates[n].long>> = CoordKey(i) =>
                  db.coordinates[n].airport = airport(i)

\* One batch inserted and incremented its counter row, failed at the INSERT
\* INTO coordinates and left no counter row; another batch committed both rows.
C20_Witness ==
    \E r1, r2 \in Requests :
        /\ BatchFailed(r1)
        /\ stmt_results[r1][2].kind = "Success"
        /\ stmt_results[r1][3].kind = "Error"
        /\ BatchSucceeded(r2)
        /\ HasCounterRow(db, CounterKey(location[r2]))
        /\ HasCoordinatesRow(db, latitude(location[r2]), longitude(location[r2]))

\* C16: in every reachable state the counter table and the coordinates table
\* each hold at most 5 rows, the number of entries of the location table,
\* however many requests have been served.
C16_AtMostFiveRows ==
    /\ Cardinality(DOMAIN db.counter) <= 5
    /\ Len(db.coordinates) <= 5

\* Five requests filled both tables and the batch of a sixth ran and failed.
C16_Witness ==
    /\ served = 5
    /\ BatchFailed(1)
    /\ Cardinality(DOMAIN db.counter) = 5
    /\ Len(db.coordinates) = 5

\* The scoreboard of a page: the pieces between PageMiddle and PageFooter.
TableOf(text) ==
    LET rest == AfterMiddle(text) IN SubSeq(rest, 1, Len(rest) - 1)

\* The map script of a page: the pieces before PageMiddle.
CanvasOf(text) ==
    LET k == CHOOSE n \in 1..Len(text) : text[n] = PageMiddle
    IN  SubSeq(text, 1, k - 1)

\* C14: for a successful result with columns C and rows R the table is: the
\* opening tag, one header cell per column of C in order, one row per row of
\* R in order with that row's cell values in column order, the closing tag,
\* and nothing else; for R empty, the header only.
C14_TableLayout ==
    \A r \in Requests :
        (Done(r) /\ counter_response[r].kind = "Success") =>
            LET C == counter_response[r].columns
                R == counter_response[r].rows
                T == TableOf(html[r])
                w == 2 + 3 * Len(C)
                at(n) == 1 + 3 * Len(C) + (n - 1) * w
            IN  /\ Len(T) = 2 + 3 * Len(C) + Len(R) * w
                /\ T[1] = "<table style=\"border: 1px solid\">"
                /\ T[Len(T)] = "</table>"
                /\ \A k \in 1..Len(C) :
                      /\ T[3 * k - 1] = "<th style=\"border: 1px solid\">"
                      /\ T[3 * k] = C[k]
                      /\ T[3 * k + 1] = "</th>"
                /\ \A n \in 1..Len(R) :
                      /\ T[at(n) + 1] = "<tr style=\"border: 1px solid\">"
                      /\ T[at(n) + w] = "</tr>"
                      /\ \A c \in 1..Len(C) :
                            /\ T[at(n) + 3 * c - 1] = "<td>"
                            /\ T[at(n) + 3 * c] = Display(Cell(R[n], C[c]))
                            /\ T[at(n) + 3 * c + 1] = "</td>"
                /\ (R = <<>> /\ C = <<"country", "city", "value">>) =>
                      T = << "<table style=\"border: 1px solid\">",
                             "<th style=\"border: 1px solid\">", "country", "</th>",
                             "<th style=\"border: 1px solid\">", "city", "</th>",
                             "<th style=\"border: 1px solid\">", "value", "</th>",
                             "</table>" >>

\* The rows [(PL, Warsaw, 3)] were rendered: one row with the cells PL,
\* Warsaw, 3 after the three header cells.
C14_Witness ==
    /\ Done(1)
    /\ counter_response[1] = Success(<<"country", "city", "value">>,
                                     << [country |-> "PL", city |-> "Warsaw", value |-> 3] >>)
    /\ SubSeq(TableOf(html[1]), 11, 21)
          = << "<tr style=\"border: 1px solid\">", "<td>", "PL", "</td>",
               "<td>", "Warsaw", "</td>", "<td>", "3", "</td>", "</tr>" >>

\* C15: for a successful coordinates result with rows R the map script is
\* the fixed prefix, one data point (lat, long, label) per row of R in row
\* order, and the fixed suffix; for no rows, the prefix and the suffix only.
C15_MapPoints ==
    \A r \in Requests :
        (Done(r) /\ coords[r].kind = "Success" /\ Contains(html[r], PageMiddle)) =>
            LET R == coords[r].rows
                S == CanvasOf(html[r])
            IN  /\ Len(S) = 2 + 7 * Len(R)
                /\ S[1] = CanvasPrefix
                /\ S[Len(S)] = CanvasSuffix
                /\ \A n \in 1..Len(R) :
                      /\ S[7 * n - 5] = "point = myMap.latLngToPixel("
                      /\ S[7 * n - 4] = R[n].lat
                      /\ S[7 * n - 3] = ", "
                      /\ S[7 * n - 2] = R[n].long
                      /\ S[7 * n - 1] = ");\nellipse(point.x, point.y, 10, 10);\ntext("
                      /\ S[7 * n] = R[n].airport
                      /\ S[7 * n + 1] = ", point.x, point.y);\n"
                /\ R = <<>> => S = <<CanvasPrefix, CanvasSuffix>>

\* Two coordinates rows were rendered as two data points.
C15_Witness ==
    /\ Done(1)
    /\ coords[1].kind = "Success"
    /\ Len(coords[1].rows) = 2
    /\ coords[1].rows[1] # coords[1].rows[2]
    /\ Len(CanvasOf(html[1])) = 16

\* C17 as claimed: a cell value with markup characters in it never appears
\* verbatim in the emitted table.
C17_CellsEscaped ==
    \A r \in Requests :
        (Done(r) /\ counter_response[r].kind = "Success") =>
            ~Contains(TableOf(html[r]), MarkupText)

====
